---- MODULE Spec2Model ----
(***************************************************************************)
(* CHITRA (ChromoViz): a state-machine model of the page component         *)
(* (selection of synteny blocks, species/chromosome filtering), of the     *)
(* zoom controls of the linear and the detailed synteny view, and of the   *)
(* hover highlighting of the linear view.                                  *)
(*                                                                         *)
(* Every React state variable is a TLA+ variable; every event handler is   *)
(* one action that includes the re-render it triggers (the useMemo values  *)
(* are recomputed as part of the action).  Each part of the program has    *)
(* its own specification; a specification leaves the other parts'          *)
(* variables unchanged.                                                    *)
(***************************************************************************)
EXTENDS Integers, Sequences, FiniteSets, TLC

VARIABLES
    \* ---- page component (ChromoViz) : block selection
    selectedSynteny,      \* useState<SyntenyData[]>([])
    toggleLog,            \* history: the last handleSyntenyToggle calls, oldest first
    \* ---- page component (ChromoViz) : data and filters
    syntenyData,          \* useState<SyntenyData[]>([])
    referenceData,        \* useState<ChromosomeData[]>([])
    referenceGenomeData,  \* useState<ReferenceGenomeData | null>(null)
    selectedSpecies,      \* useState<string[]>([])
    selectedChromosomes,  \* useState<string[]>([])
    isInitialized,        \* useState(false)
    isLoading,            \* useState(false)
    error,                \* useState<string | null>(null)
    uploadedFiles,        \* useState({synteny, species, reference})
    storage,              \* localStorage item 'selectedSpecies'
    inflight,             \* paths of the loadExampleData calls suspended at an
                          \* await, in the order they were made
    filteredData,         \* the useMemo value of the last render
    memoLeft,             \* history: the arrays the last computation of
                          \* filteredData was given, as it left them
    effectsPending,       \* a render was committed whose effects have not run yet
    \* ---- linear view (ChromosomeSynteny) : zoom
    linZoom,              \* useState(1), set by the 'zoom' listeners
    linNodeZoom,          \* svg.__zoom, the transform d3-zoom keeps on the node
    linGroup,             \* the transform attribute of the main <g>
    linResetFrom,         \* history: the transform the last gesture, a reset, started from
    \* ---- detailed view (DetailedSyntenyView) : zoom
    detZoom,              \* useState(1), shown in the badge
    detNodeZoom,          \* svg.__zoom
    detGroup,             \* the transform attribute of the main <g>
    isGraphFixed,         \* useState(false)
    zoomAttached,         \* the '.zoom' listeners of zoomBehavior are on the svg
    detCleanup,           \* the last run of the render effect returned its cleanup
    detListeners,         \* the fullscreenchange listener and the
                          \* ResizeObserver the view has registered
    leftBehind,           \* history: listeners still on the svg of a view
                          \* that has been unmounted
    detResetFrom,         \* history: as linResetFrom
    \* ---- both views
    gestures,             \* history: the number of zoom gestures made so far
    \* ---- linear view (ChromosomeSynteny) : hover highlighting
    viewReference,        \* the referenceData prop
    viewSynteny,          \* the syntenyData prop
    alignmentFilter,      \* useState<'all' | 'forward' | 'reverse'>('all')
    opacity,              \* the opacity attribute of every block and ribbon
    strokeWidth,          \* the stroke-width attribute of every block and ribbon
    hovered,              \* the block or ribbon under the pointer
    hoverInfo,            \* useState(null): the link the tooltip is about
    activeRibbon,         \* chromosome-synteny.bk: the ribbon of class 'active'
    linearView,           \* the version of ChromosomeSynteny the page is built with
    \* ---- selection table (SyntenyTable) : export
    download,             \* the file of the last export: the Blob's text, and
                          \* (history) the rows downloadCSV was called with
    uploadedRows,         \* history: the rows handleChromosomeData was last
                          \* called with
    \* ---- page component (ChromoViz) : loads
    requested,            \* history: the path of the last loadExampleData
                          \* call, until a file is uploaded
    failedPath,           \* history: the path of the load whose failure set
                          \* the error that is shown
    lastLoad,             \* history: the loadExampleData call that ended in the
                          \* last event and the fetches of it that failed,
                          \* until the effects of its render have run
    \* ---- page component (ChromoViz) : effects
    speciesFrom,          \* history: what put selectedSpecies where it is
    saveDeps,             \* the dependencies [selectedSpecies, isInitialized] the
                          \* save effect last ran with
    \* ---- the components and what they have registered outside React
    mounted,              \* the components that are mounted, of NavBar and
                          \* ChromoViz
    listeners             \* the event listeners on window and document and
                          \* the ResizeObservers, each with its component

selVars == <<selectedSynteny, toggleLog>>

dataVars == <<syntenyData, referenceData, referenceGenomeData>>

pageVars ==
    <<dataVars, selectedSpecies, selectedChromosomes, isInitialized, isLoading,
      error, uploadedFiles, storage, inflight, filteredData, memoLeft,
      effectsPending>>

linVars == <<linZoom, linNodeZoom, linGroup, linResetFrom>>

\* what the detailed view has registered
detLife == <<zoomAttached, detCleanup, detListeners, leftBehind>>

detVars ==
    <<detZoom, detNodeZoom, detGroup, isGraphFixed, detLife, detResetFrom>>

hoverVars ==
    <<viewReference, viewSynteny, alignmentFilter, opacity, strokeWidth,
      hovered, hoverInfo, activeRibbon, linearView>>

\* what the components leave outside their own state
lifeVars == <<mounted, listeners>>

fileVars == <<download, uploadedRows>>

effectVars == <<saveDeps, speciesFrom>>

loadVars == <<lastLoad, requested, failedPath>>

sideVars == <<fileVars, loadVars, effectVars, lifeVars>>

vars == <<selVars, pageVars, linVars, detVars, gestures, hoverVars, sideVars>>

\* null, for the string-valued state (error)
NULL == "null"

\* null / undefined, for a number-valued field
NoNumber == 0 - 1

\* null, for referenceGenomeData
NoGenome == [isNull |-> TRUE]

\* localStorage: a missing item, and an item holding a JSON-encoded list
NoItem == <<>>
Item(list) == <<list>>

-----------------------------------------------------------------------------
(* Generic helpers                                                         *)

Range(s) == {s[i] : i \in 1..Len(s)}

\* Array.prototype.includes
includes(s, x) == \E i \in 1..Len(s) : s[i] = x

-----------------------------------------------------------------------------
(* d3-zoom as the two views use it.  A scale is a fixed-point number, Unit *)
(* to the 1; a translation is in pixels.  A transition is taken by its end *)
(* (at t = 1 d3-zoom puts the target transform on the node); the frames in *)
(* between are not states of the model.                                    *)

\* fixed-point resolution of a scale
Unit == 100

\* value * tenths / 10
timesTenths(value, tenths) == (value * tenths) \div 10

\* a (min, max) pair given in tenths, as scales
asScales(extentTenths) ==
    <<timesTenths(Unit, extentTenths[1]), timesTenths(Unit, extentTenths[2])>>

\* d3.zoomIdentity
zoomIdentity == [k |-> Unit, x |-> 0, y |-> 0]

\* Math.max(scaleExtent[0], Math.min(scaleExtent[1], k))
clamp(k, extent) ==
    IF k < extent[1] THEN extent[1] ELSE IF k > extent[2] THEN extent[2] ELSE k

\* zoom.scaleTo about the point p: the scale is clamped to the extent, the
\* point of the drawing under p stays under p
scaleTo(t, k, p, extent) ==
    LET k1 == clamp(k, extent)
    IN  IF k1 = t.k THEN t
        ELSE [k |-> k1,
              x |-> p[1] - (((p[1] - t.x) * k1) \div t.k),
              y |-> p[2] - (((p[2] - t.y) * k1) \div t.k)]

\* zoom.scaleBy(selection, k): scaleTo(this.__zoom.k * k) about the centre
scaleBy(t, tenths, centre, extent) ==
    scaleTo(t, timesTenths(t.k, tenths), centre, extent)

\* mutant: zoom.transform leaves the translation of the node as it is
zoomTransformMutKeepTranslation(t, target) ==
    [target EXCEPT !.x = t.x, !.y = t.y]

\* zoom.transform(selection, target): the node's transform becomes the
\* target; no extent is applied
zoomTransform(t, target) == target

\* Transform.prototype.scale: new Transform(this.k * k, this.x, this.y)
scale(t, k) == IF k = Unit THEN t ELSE [t EXCEPT !.k = (t.k * k) \div Unit]

\* a drag of the pointer by delta: the translation follows it
translateBy(t, delta) == [t EXCEPT !.x = t.x + delta[1], !.y = t.y + delta[2]]

\* the wheel factors 2 ^ (-deltaY * 0.002) the model turns with, in tenths
\* (deltaY = 500 and deltaY = -500)
WheelFactors == {5, 20}

\* the pointer positions a wheel event comes from
Pointers == {<<100, 100>>}

\* the distance of a drag, in pixels
PanStep == 100

\* the drags of the model
PanDeltas == {<<PanStep, 0>>, <<0 - PanStep, 0 - PanStep>>}

\* the model follows a session for this many zoom gestures
MaxGestures == 4

\* the model stops the detailed view's buttons beyond this scale
MaxScale == 2000

\* one more zoom gesture
Gesture ==
    /\ gestures < MaxGestures
    /\ gestures' = gestures + 1

-----------------------------------------------------------------------------
(* Zoom of the linear view (ChromosomeSynteny)                             *)

\* .scaleExtent([0.5, 5]), in tenths
scaleExtent == <<5, 50>>

\* width and height of the svg (the props' defaults)
width == 1400
height == 800

\* margin.left, margin.top
marginLeft == 120
marginTop == 60

\* the centre of the zoom extent [[0, 0], [width, height]]
linCentre == <<width \div 2, height \div 2>>

\* the scale factors of the zoom buttons, in tenths
zoomInBy == 12
zoomOutBy == 8

\* g.attr("transform", `translate(${margin.left},${margin.top})`)
linGroupDrawn == [k |-> Unit, x |-> marginLeft, y |-> marginTop]

\* the 'zoom' listener: g.attr("transform", event.transform);
\* setZoom(event.transform.k)
linOnZoom(t) ==
    /\ linNodeZoom' = t
    /\ linGroup' = t
    /\ linZoom' = t.k

\* the zoom-in button
linZoomIn ==
    /\ linOnZoom(scaleBy(linNodeZoom, zoomInBy, linCentre, asScales(scaleExtent)))
    /\ linResetFrom' = NoItem
    /\ UNCHANGED <<selVars, sideVars, pageVars, detVars, hoverVars>>
    /\ Gesture

\* the zoom-out button
linZoomOut ==
    /\ linOnZoom(scaleBy(linNodeZoom, zoomOutBy, linCentre, asScales(scaleExtent)))
    /\ linResetFrom' = NoItem
    /\ UNCHANGED <<selVars, sideVars, pageVars, detVars, hoverVars>>
    /\ Gesture

\* the reset button: zoom.transform to d3.zoomIdentity
linReset ==
    /\ linOnZoom(zoomTransform(linNodeZoom, zoomIdentity))
    /\ linResetFrom' = Item(linNodeZoom)
    /\ UNCHANGED <<selVars, sideVars, pageVars, detVars, hoverVars>>
    /\ Gesture

\* a wheel event on the svg (zoomBehavior): nothing happens when the
\* clamped scale is the scale the node has
linWheel ==
    \E f \in WheelFactors, p \in Pointers :
        LET k1 == clamp(timesTenths(linNodeZoom.k, f), asScales(scaleExtent))
        IN  /\ k1 # linNodeZoom.k
            /\ linOnZoom(scaleTo(linNodeZoom, k1, p, asScales(scaleExtent)))
            /\ linResetFrom' = NoItem
            /\ UNCHANGED <<selVars, sideVars, pageVars, detVars, hoverVars>>
            /\ Gesture

\* a drag on the svg (zoomBehavior)
linPan ==
    \E d \in PanDeltas :
        /\ linOnZoom(translateBy(linNodeZoom, d))
        /\ linResetFrom' = NoItem
        /\ UNCHANGED <<selVars, sideVars, pageVars, detVars, hoverVars>>
        /\ Gesture

\* the render effect of the linear view: svg.selectAll("*").remove(), a new
\* <g>, svg.call(zoomBehavior); the node keeps its __zoom
linRedraw ==
    /\ linGroup' = linGroupDrawn
    /\ UNCHANGED <<linZoom, linNodeZoom, linResetFrom>>

LinInit ==
    /\ linZoom = Unit
    /\ linNodeZoom = zoomIdentity
    /\ linGroup = linGroupDrawn
    /\ linResetFrom = NoItem

-----------------------------------------------------------------------------
(* Zoom of the detailed view (DetailedSyntenyView).  The page mounts the   *)
(* view while a block is selected, with the first selected block and the   *)
(* filtered reference rows.                                                *)

\* defaultConfig.interaction.zoomExtent, in tenths
zoomExtent == <<5, 50>>

\* g.attr('transform', `translate(${width/2},${height/2})`)
detGroupDrawn == [centred |-> TRUE]

\* {selectedSynteny.length > 0 && ( ... <DetailedSyntenyView ... /> ... )}
detMounted == selectedSynteny # <<>>

\* the badge: Math.round(zoom * 100), a percentage
badge(zoom) == ((zoom * 200) + Unit) \div (2 * Unit)

\* the 'zoom' listener of zoomBehavior
detOnZoom(t) ==
    /\ detNodeZoom' = t
    /\ detGroup' = t
    /\ detZoom' = t.k

\* the buttons are shown enabled
detButtonsEnabled == detMounted /\ ~isGraphFixed

\* handleZoomIn / handleZoomOut: a transition to
\* currentZoom.scale(currentZoom.k * factor) through the transform method
\* of a new d3.zoom(), which has no listener; setZoom(currentZoom.k * factor)
detZoomBy(tenths) ==
    LET currentZoom == detNodeZoom
        target == scale(currentZoom, timesTenths(currentZoom.k, tenths))
    IN  /\ detButtonsEnabled
        /\ currentZoom.k <= MaxScale /\ target.k >= 1
        /\ detNodeZoom' = zoomTransform(currentZoom, target)
        /\ detZoom' = timesTenths(currentZoom.k, tenths)
        /\ detResetFrom' = NoItem
        /\ UNCHANGED <<detGroup, isGraphFixed, detLife>>
        /\ UNCHANGED <<selVars, sideVars, pageVars, linVars, hoverVars>>
        /\ Gesture

handleZoomIn == detZoomBy(zoomInBy)

handleZoomOut == detZoomBy(zoomOutBy)

\* handleReset: a transition to d3.zoomIdentity, setZoom(1)
handleReset ==
    /\ detButtonsEnabled
    /\ detNodeZoom' = zoomTransform(detNodeZoom, zoomIdentity)
    /\ detZoom' = Unit
    /\ detResetFrom' = Item(detNodeZoom)
    /\ UNCHANGED <<detGroup, isGraphFixed, detLife>>
    /\ UNCHANGED <<selVars, sideVars, pageVars, linVars, hoverVars>>
    /\ Gesture

\* a wheel event on the svg while zoomBehavior is attached
detWheel ==
    \E f \in WheelFactors, p \in Pointers :
        LET k1 == clamp(timesTenths(detNodeZoom.k, f), asScales(zoomExtent))
        IN  /\ detMounted /\ zoomAttached
            /\ k1 # detNodeZoom.k
            /\ detOnZoom(scaleTo(detNodeZoom, k1, p, asScales(zoomExtent)))
            /\ detResetFrom' = NoItem
            /\ UNCHANGED <<isGraphFixed, detLife>>
            /\ UNCHANGED <<selVars, sideVars, pageVars, linVars, hoverVars>>
            /\ Gesture

\* a drag on the svg while zoomBehavior is attached
detPan ==
    \E d \in PanDeltas :
        /\ detMounted /\ zoomAttached
        /\ detOnZoom(translateBy(detNodeZoom, d))
        /\ detResetFrom' = NoItem
        /\ UNCHANGED <<isGraphFixed, detLife>>
        /\ UNCHANGED <<selVars, sideVars, pageVars, linVars, hoverVars>>
        /\ Gesture

\* refChromosome and queryChromosome: referenceData.find(...) finds a row
\* for each end of the block
chromosomesFound(block, data) ==
    /\ \E i \in 1..Len(data) :
           /\ data[i].species_name = block.ref_species
           /\ data[i].chr_id = block.ref_chr
    /\ \E i \in 1..Len(data) :
           /\ data[i].species_name = block.query_name
           /\ data[i].chr_id = block.query_chr

\* the listeners on the svg once React has called the cleanup the last run
\* of the render effect returned, if it returned one: svg.on('.zoom', null)
afterCleanup == IF detCleanup THEN FALSE ELSE zoomAttached

\* the render effect with the props and the value of isGraphFixed it is run
\* with: the svg is emptied, zoomBehavior is attached unless the graph is
\* fixed, a new <g> is drawn, and the effect returns before the drawing,
\* without a cleanup, if one of the two chromosomes is not found; the node
\* keeps its __zoom and the component its zoom
detEffect(fixed, block, data) ==
    /\ zoomAttached' = (IF fixed THEN afterCleanup ELSE TRUE)
    /\ detCleanup' = chromosomesFound(block, data)
    /\ detGroup' = detGroupDrawn
    /\ UNCHANGED <<detZoom, detNodeZoom, detResetFrom, detListeners, leftBehind>>

\* the lock button: setIsGraphFixed(!isGraphFixed), then the effect
toggleGraphFixed ==
    /\ detMounted
    /\ isGraphFixed' = ~isGraphFixed
    /\ detEffect(~isGraphFixed, selectedSynteny[1], filteredData.referenceData)
    /\ UNCHANGED <<selVars, sideVars, pageVars, linVars, gestures, hoverVars>>

\* handleConfigChange, or the ResizeObserver's setViewBoxDimensions: config
\* and viewBoxDimensions are dependencies of the render effect
detRerun ==
    /\ detMounted
    /\ detEffect(isGraphFixed, selectedSynteny[1], filteredData.referenceData)
    /\ UNCHANGED isGraphFixed
    /\ UNCHANGED <<selVars, sideVars, pageVars, linVars, gestures, hoverVars>>

\* the listeners and observers the effects with no dependencies register
\* when the view mounts
DetListeners == {"fullscreenchange", "ResizeObserver"}

\* the view is unmounted: React calls the cleanups of its effects
\* (removeEventListener, resizeObserver.disconnect, and the cleanup of the
\* render effect if its last run returned one); the rest is the state of a
\* view that is not there
detUnmounted ==
    /\ detZoom' = Unit
    /\ detNodeZoom' = zoomIdentity
    /\ detGroup' = detGroupDrawn
    /\ isGraphFixed' = FALSE
    /\ zoomAttached' = FALSE
    /\ detCleanup' = FALSE
    /\ detListeners' = {}
    /\ leftBehind' = (IF afterCleanup THEN leftBehind \cup {"zoom"} ELSE leftBehind)
    /\ detResetFrom' = NoItem

\* a render of the page as the detailed view takes part in it: mounted with
\* a new svg when the selection stops being empty, gone when it becomes
\* empty, its effect run again in between (onBlockClick is a new function
\* at every render of the page)
detFollowsPage ==
    IF selectedSynteny' = <<>>
    THEN IF selectedSynteny = <<>> THEN UNCHANGED detVars ELSE detUnmounted
    ELSE IF selectedSynteny = <<>>
         THEN /\ detZoom' = Unit
              /\ detNodeZoom' = zoomIdentity
              /\ isGraphFixed' = FALSE
              /\ zoomAttached' = TRUE
              /\ detCleanup' = chromosomesFound(selectedSynteny'[1],
                                                filteredData'.referenceData)
              /\ detListeners' = DetListeners
              /\ detGroup' = detGroupDrawn
              /\ detResetFrom' = NoItem
              /\ UNCHANGED leftBehind
         ELSE /\ UNCHANGED isGraphFixed
              /\ detEffect(isGraphFixed, selectedSynteny'[1],
                           filteredData'.referenceData)

DetInit ==
    /\ detZoom = Unit
    /\ detNodeZoom = zoomIdentity
    /\ detGroup = detGroupDrawn
    /\ isGraphFixed = FALSE
    /\ zoomAttached = FALSE
    /\ detCleanup = FALSE
    /\ detListeners = {}
    /\ leftBehind = {}
    /\ detResetFrom = NoItem

-----------------------------------------------------------------------------
(* SyntenyData rows that the user can click: the blocks drawn by the       *)
(* visualisation and listed in the table.  Two rows may share the key      *)
(* (ref_chr, query_chr, ref_start) and differ elsewhere (query_name).      *)

\* number of distinct ref_start values a clickable block may carry
MaxStarts == 2

\* number of toggle calls the history keeps
LogLen == 2

Link(rc, qc, st, qn) ==
    [ref_species |-> "R", ref_chr |-> rc, ref_start |-> st,
     query_name |-> qn, query_chr |-> qc, query_strand |-> "+"]

\* one base block, a second row with the same key, and blocks that differ
\* from the base block in exactly one component of the key
Links ==
    {Link("1", "1", 0, "A"), Link("1", "1", 0, "B"),
     Link("2", "1", 0, "A"), Link("1", "2", 0, "A")}
    \cup {Link("1", "1", st, "A") : st \in 1..(MaxStarts - 1)}

\* the comparison of handleSyntenyToggle / handleSyntenySelection:
\* l.ref_chr === link.ref_chr && l.query_chr === link.query_chr &&
\* l.ref_start === link.ref_start
sameBlock(l, link) ==
    /\ l.ref_chr = link.ref_chr
    /\ l.query_chr = link.query_chr
    /\ l.ref_start = link.ref_start

\* prev.some(l => ...)
exists(prev, link) == \E i \in 1..Len(prev) : sameBlock(prev[i], link)

\* mutant: the filter looks at the chromosome pair only
differsMutChrOnly(l, link) ==
    \/ l.ref_chr # link.ref_chr
    \/ l.query_chr # link.query_chr

\* the negated comparison used by filter, disjunct by disjunct as in the code
differs(l, link) ==
    \/ l.ref_chr # link.ref_chr
    \/ l.query_chr # link.query_chr
    \/ l.ref_start # link.ref_start

\* mutant: the state updater compares whole rows instead of the key
handleSyntenyToggleMutWholeRow(prev, link) ==
    IF includes(prev, link)
    THEN SelectSeq(prev, LAMBDA l : l # link)
    ELSE Append(prev, link)

\* the state updater of handleSyntenyToggle
handleSyntenyToggle(prev, link) ==
    IF exists(prev, link)
    THEN SelectSeq(prev, LAMBDA l : differs(l, link))
    ELSE Append(prev, link)

\* mutant: a link that is selected is appended without the test of its key
handleSyntenySelectionMutAppend(prev, link, isSelected) ==
    IF isSelected THEN Append(prev, link)
    ELSE SelectSeq(prev, LAMBDA l : differs(l, link))

\* the state updater of handleSyntenySelection
handleSyntenySelection(prev, link, isSelected) ==
    IF isSelected /\ ~exists(prev, link) THEN Append(prev, link)
    ELSE IF ~isSelected /\ exists(prev, link)
         THEN SelectSeq(prev, LAMBDA l : differs(l, link))
         ELSE prev

PushLog(log, e) ==
    IF Len(log) < LogLen THEN Append(log, e) ELSE Append(Tail(log), e)

\* handleSyntenyToggle called with link, and the render that follows
SyntenyToggleOf(link) ==
    /\ UNCHANGED <<pageVars, linVars, gestures, hoverVars, sideVars>>
    /\ selectedSynteny' = handleSyntenyToggle(selectedSynteny, link)
    /\ toggleLog' = PushLog(toggleLog, [link |-> link, before |-> selectedSynteny])
    /\ detFollowsPage

\* onToggleSelection / onBlockClick
SyntenyToggle == \E link \in Links : SyntenyToggleOf(link)

\* onSyntenySelect
SyntenySelection ==
    \E link \in Links, isSelected \in BOOLEAN :
        /\ UNCHANGED <<pageVars, linVars, gestures, hoverVars, sideVars>>
        /\ selectedSynteny' = handleSyntenySelection(selectedSynteny, link, isSelected)
        /\ toggleLog' = <<>>
        /\ detFollowsPage

SelInit ==
    /\ selectedSynteny = <<>>
    /\ toggleLog = <<>>

SelNext == SyntenyToggle \/ SyntenySelection

-----------------------------------------------------------------------------
(* The CSV export of the selection (downloadCSV).  A string is a list of   *)
(* pieces: a piece is the character ',' or the line feed, or a run of      *)
(* other characters.                                                       *)

Comma == ","
LF == "\n"

\* the blocks the export is run with: SyntenyData rows as parseCSVRow
\* shapes them, every text column as d3.csv read it from its (quoted) field
Row(rs, rc, st, en, qn, qc, qs, qe, strand) ==
    [ref_species |-> rs, ref_chr |-> rc, ref_start |-> st, ref_end |-> en,
     query_name |-> qn, query_chr |-> qc, query_start |-> qs,
     query_end |-> qe, query_strand |-> strand]

\* bp to the Mb
Mb == 1000000

ExportRows ==
    {Row(<<"R">>, <<"1">>, 0, 1500000, <<"A">>, <<"1">>, 254999, 1755000, "+"),
     Row(<<"R">>, <<"2">>, 12345678, 12000000, <<"B">>, <<"1">>, 0, 9999, "-"),
     Row(<<"R">>, <<"3">>, 0, Mb, <<"Mus musculus", Comma, " C57BL">>,
         <<"1">>, 0, Mb, "+"),
     Row(<<"R">>, <<"4">>, 0, Mb, <<"Sus", LF, "scrofa">>, <<"1">>, 0, Mb, "-")}

\* the headers of downloadCSV
headers ==
    << <<"Reference Species">>, <<"Reference Chromosome">>,
       <<"Reference Start (Mb)">>, <<"Reference End (Mb)">>,
       <<"Query Species">>, <<"Query Chromosome">>, <<"Query Start (Mb)">>,
       <<"Query End (Mb)">>, <<"Size (Mb)">>, <<"Orientation">> >>

\* two decimal digits
twoDigits(n) == IF n < 10 THEN "0" \o ToString(n) ELSE ToString(n)

\* (bp / 1_000_000).toFixed(2): rounded to the hundredth, with the sign
toFixed(bp) ==
    LET a == IF bp < 0 THEN 0 - bp ELSE bp
        h == (a + (Mb \div 200)) \div (Mb \div 100)
    IN  << (IF bp < 0 THEN "-" ELSE "") \o ToString(h \div 100) \o "."
               \o twoDigits(h % 100) >>

\* the array downloadCSV makes of one link
cells(link) ==
    << link.ref_species, link.ref_chr, toFixed(link.ref_start),
       toFixed(link.ref_end), link.query_name, link.query_chr,
       toFixed(link.query_start), toFixed(link.query_end),
       toFixed(link.ref_end - link.ref_start),
       IF link.query_strand = "+" THEN <<"Forward">> ELSE <<"Reverse">> >>

\* Array.prototype.join of strings
RECURSIVE join(_, _)
join(arr, sep) ==
    IF arr = <<>> THEN <<>>
    ELSE IF Len(arr) = 1 THEN arr[1]
    ELSE arr[1] \o <<sep>> \o join(Tail(arr), sep)

\* csvContent of downloadCSV
csvContent(data) ==
    join(<<join(headers, Comma)>>
             \o [i \in 1..Len(data) |-> join(cells(data[i]), Comma)], LF)

\* the Export CSV button of the table (shown while blocks are selected):
\* onExport(selectedSynteny), which is downloadCSV
exportCSV ==
    /\ selectedSynteny # <<>>
    /\ download' = Item([data |-> selectedSynteny,
                         text |-> csvContent(selectedSynteny)])
    /\ UNCHANGED <<selVars, pageVars, linVars, detVars, gestures, hoverVars,
                   uploadedRows, loadVars, effectVars, lifeVars>>

\* a click on a block or a table row of the export's rows
toggleRow == \E link \in ExportRows : SyntenyToggleOf(link)

SideInit ==
    /\ download = NoItem /\ lastLoad = NoItem /\ saveDeps = NoItem
    /\ requested = NoItem /\ failedPath = NoItem
    /\ speciesFrom = "useState"
    /\ uploadedRows = NoItem
    /\ mounted = {"ChromoViz"} /\ listeners = {}

ExportNext == toggleRow \/ exportCSV

-----------------------------------------------------------------------------
(* The page's data: CSV rows as the parse functions shape them             *)

\* a numeric column of a CSV row as d3.csv hands it over, a string: the
\* empty string, or the decimal text of a number
EmptyText == <<>>
Text(n) == <<n>>

\* the unary plus on such a string: +"" is 0
plus(text) == IF text = EmptyText THEN 0 ELSE text[1]

\* a row of species_data.csv
RawChr(sp, id, size, cs, ce) ==
    [species_name |-> sp, chr_id |-> id, chr_type |-> "chromosome",
     chr_size_bp |-> size, centromere_start |-> cs, centromere_end |-> ce]

\* a row of ref_chromosome_sizes.csv
RawSize(id, size, cs, ce) ==
    [chromosome |-> id, size |-> size, centromere_start |-> cs,
     centromere_end |-> ce]

\* parseChromosomeRow: a non-empty string is truthy
parseChromosomeRow(d) ==
    [d EXCEPT !.chr_size_bp = plus(@),
              !.centromere_start = IF @ # EmptyText THEN plus(@) ELSE NoNumber,
              !.centromere_end = IF @ # EmptyText THEN plus(@) ELSE NoNumber]

\* parseChromosomeSizeRow
parseChromosomeSizeRow(d) ==
    [chromosome |-> d.chromosome,
     size |-> plus(d.size),
     centromere_start |->
         IF d.centromere_start # EmptyText THEN plus(d.centromere_start)
         ELSE NoNumber,
     centromere_end |->
         IF d.centromere_end # EmptyText THEN plus(d.centromere_end)
         ELSE NoNumber]

\* ChromosomeData row of a species file without centromere columns
Chr(sp, id, size) ==
    parseChromosomeRow(RawChr(sp, id, Text(size), EmptyText, EmptyText))

\* ref_chromosome_sizes.csv row through parseChromosomeSizeRow
Size(id, size, cs, ce) ==
    parseChromosomeSizeRow(RawSize(id, Text(size), Text(cs), Text(ce)))

\* ref_gene_annotations.csv row through parseGeneAnnotationRow
Gene(chrom, sym) == [chromosome |-> chrom, symbol |-> sym]

\* the example datasets a load can fetch, by path.  set1: an unsorted
\* species file; set2: a species file that carries rows of the reference
\* species R, and a ref_chromosome_sizes.csv that holds a header only.
\* set3: files with an empty and a zero size column and with centromere
\* columns that are out of order.
Paths == {"set1", "set2", "set3"}

DefaultPath == "set1"

Files(path) ==
    IF path = "set1"
    THEN [synteny |-> <<Link("1", "1", 0, "B"), Link("1", "1", 0, "A")>>,
          species |-> <<Chr("B", "1", 30), Chr("A", "1", 20)>>,
          sizes |-> <<Size("1", 50, 20, 25)>>,
          annotations |-> <<Gene("1", "g1")>>,
          breakpoints |-> <<[ref_chr |-> "1", breakpoint |-> "bp1"]>>]
    ELSE IF path = "set2"
    THEN [synteny |-> <<Link("1", "1", 0, "C")>>,
          species |-> <<Chr("R", "1", 50), Chr("C", "1", 15)>>,
          sizes |-> <<>>,
          annotations |-> <<>>,
          breakpoints |-> <<>>]
    ELSE [synteny |-> <<Link("1", "1", 0, "A")>>,
          species |-> <<parseChromosomeRow(
                            RawChr("A", "1", EmptyText, Text(30), Text(20)))>>,
          sizes |-> <<parseChromosomeSizeRow(
                          RawSize("1", Text(0), Text(25), Text(20)))>>,
          annotations |-> <<>>,
          breakpoints |-> <<>>]

\* String.prototype.localeCompare on the species names of the datasets
SpeciesOrder == <<"A", "B", "C", "R", "Z">>

IndexOf(s, x) == CHOOSE i \in 1..Len(s) : s[i] = x

localeCompare(a, b) ==
    IF a = b THEN 0
    ELSE IF IndexOf(SpeciesOrder, a) < IndexOf(SpeciesOrder, b) THEN -1 ELSE 1

\* Array.prototype.map
map(s, f(_)) == [i \in 1..Len(s) |-> f(s[i])]

-----------------------------------------------------------------------------
(* filteredData (useMemo) and what it reads                                *)

\* referenceSpecies (useMemo)
referenceSpecies(synteny) ==
    IF Len(synteny) = 0 THEN NULL ELSE synteny[1].ref_species

\* the option value of a species chromosome and of a reference chromosome
speciesOption(species, chr) == species \o ":" \o chr
refOption(chr) == "ref:" \o chr

\* the comparator handed to filteredReference.sort
compare(a, b, refSpecies) ==
    IF a.species_name = refSpecies THEN 1
    ELSE IF b.species_name = refSpecies THEN -1
    ELSE localeCompare(a.species_name, b.species_name)

\* Array.prototype.sort on a short array: binary insertion, the pivot
\* compared with the element in the middle of the sorted prefix
insertionPoint(arr, pivot, cmp(_, _)) ==
    LET search[lr \in (0..Len(arr)) \X (0..Len(arr))] ==
            LET left == lr[1]
                right == lr[2]
                mid == left + ((right - left) \div 2)
            IN  IF left >= right THEN left
                ELSE IF cmp(pivot, arr[mid + 1]) < 0
                     THEN search[<<left, mid>>]
                     ELSE search[<<mid + 1, right>>]
    IN  search[<<0, Len(arr)>>]

sort(arr, cmp(_, _)) ==
    LET sorted[n \in 0..Len(arr)] ==
            IF n = 0 THEN <<>>
            ELSE LET p == insertionPoint(sorted[n - 1], arr[n], cmp)
                 IN  SubSeq(sorted[n - 1], 1, p) \o <<arr[n]>>
                         \o SubSeq(sorted[n - 1], p + 1, n - 1)
    IN  sorted[Len(arr)]

\* Array.from(new Set(arr)): first occurrences, in order
RECURSIVE unique(_)
unique(arr) ==
    IF arr = <<>> THEN <<>>
    ELSE LET front == unique(SubSeq(arr, 1, Len(arr) - 1))
             last == arr[Len(arr)]
         IN  IF includes(front, last) THEN front ELSE Append(front, last)

\* a value that JavaScript's conditional takes as true (numbers, null)
truthy(x) == x # NoNumber /\ x # 0

\* mutant: the chromosome test of referenceChromosomes lacks the
\* "nothing selected" case
referenceChromosomesMutNoGuard(rgd, refSpecies, selChr) ==
    LET kept == SelectSeq(rgd.chromosomeSizes,
                    LAMBDA chr : includes(selChr, refOption(chr.chromosome)))
        row(chr) ==
            [species_name |-> refSpecies, chr_id |-> chr.chromosome,
             chr_type |-> "chromosome", chr_size_bp |-> chr.size,
             centromere_start |-> chr.centromere_start,
             centromere_end |-> chr.centromere_end,
             annotations |-> <<>>]
    IN  map(kept, row)

\* referenceChromosomes: the chromosome sizes that pass the chromosome
\* selection, shaped as chromosome rows of the reference species
referenceChromosomes(rgd, refSpecies, selChr) ==
    LET kept == SelectSeq(rgd.chromosomeSizes,
                    LAMBDA chr : Len(selChr) = 0
                                 \/ includes(selChr, refOption(chr.chromosome)))
        row(chr) ==
            [species_name |-> refSpecies, chr_id |-> chr.chromosome,
             chr_type |-> "chromosome", chr_size_bp |-> chr.size,
             centromere_start |->
                 IF truthy(chr.centromere_start) THEN chr.centromere_start
                 ELSE NoNumber,
             centromere_end |->
                 IF truthy(chr.centromere_end) THEN chr.centromere_end
                 ELSE NoNumber,
             annotations |-> SelectSeq(rgd.geneAnnotations,
                                 LAMBDA gene : gene.chromosome = chr.chromosome)]
    IN  map(kept, row)

\* the condition of the branch that returns every species row
showAll(selSp, selChr) == Len(selSp) = 0 /\ Len(selChr) = 0

\* mutant: the species filter lets rows of every species pass
speciesPassMutAll(selSp, name) == TRUE

\* selectedSpecies.length === 0 || selectedSpecies.includes(name)
speciesPass(selSp, name) == Len(selSp) = 0 \/ includes(selSp, name)

\* selectedChromosomes.length === 0 || selectedChromosomes.includes(value)
chromosomePass(selChr, value) == Len(selChr) = 0 \/ includes(selChr, value)

\* filteredReference as the array literal makes it, before it is sorted
filteredReferenceNew(refData, selSp, selChr, refSpecies, refChrs) ==
    SelectSeq(refData, LAMBDA d :
        /\ speciesPass(selSp, d.species_name)
        /\ chromosomePass(selChr, speciesOption(d.species_name, d.chr_id))
        /\ d.species_name # refSpecies)
    \o refChrs

\* filteredData (useMemo)
filteredDataMemo(refData, synData, selSp, selChr, rgd) ==
    LET refSpecies == referenceSpecies(synData)
    IN  IF rgd = NoGenome \/ refSpecies = NULL
        THEN [referenceData |-> refData, syntenyData |-> synData]
        ELSE
          LET refChrs == referenceChromosomes(rgd, refSpecies, selChr)
          IN  IF showAll(selSp, selChr)
              THEN [referenceData |->
                        SelectSeq(refData, LAMBDA d : d.species_name # refSpecies)
                            \o refChrs,
                    syntenyData |-> synData]
              ELSE
                LET filteredReference ==
                        filteredReferenceNew(refData, selSp, selChr,
                                             refSpecies, refChrs)
                    filteredSynteny ==
                        SelectSeq(synData, LAMBDA d :
                            /\ speciesPass(selSp, d.query_name)
                            /\ (Len(selChr) = 0
                                \/ includes(selChr, refOption(d.ref_chr))
                                \/ includes(selChr,
                                       speciesOption(d.query_name, d.query_chr))))
                IN  [referenceData |->
                         sort(filteredReference,
                              LAMBDA a, b : compare(a, b, refSpecies)),
                     syntenyData |-> filteredSynteny]

\* mutant: the rows held in state are the ones sorted
sortReceiverMutState == "referenceData"

\* the array that filteredReference.sort(...) orders in place: the array
\* the literal [...referenceData.filter(...), ...referenceChromosomes] made
sortReceiver == "filteredReference"

\* the arrays the computation of filteredData can reach, by name, as it
\* leaves them: filter, map and the array literals make new arrays and
\* read the ones they are given, sort orders its receiver in place
memoArrays(refData, synData, selSp, selChr, rgd) ==
    LET refSpecies == referenceSpecies(synData)
        given == [referenceData |-> refData, syntenyData |-> synData,
                  referenceGenomeData |-> rgd, filteredReference |-> <<>>]
    IN  IF rgd = NoGenome \/ refSpecies = NULL \/ showAll(selSp, selChr)
        THEN given
        ELSE LET made == [given EXCEPT !.filteredReference =
                             filteredReferenceNew(refData, selSp, selChr,
                                 refSpecies,
                                 referenceChromosomes(rgd, refSpecies, selChr))]
             IN  [made EXCEPT ![sortReceiver] =
                     sort(@, LAMBDA a, b : compare(a, b, refSpecies))]

\* speciesOptions (useMemo), the option values only
speciesOptions(refData) ==
    sort(unique(map(refData, LAMBDA d : d.species_name)), localeCompare)

\* chromosomeOptions (useMemo), flattened to the option values
RECURSIVE flat(_)
flat(ss) == IF ss = <<>> THEN <<>> ELSE Head(ss) \o flat(Tail(ss))

chromosomeOptions(refData, rgd) ==
    LET names == unique(map(refData, LAMBDA d : d.species_name))
        ofSpecies(sp) ==
            map(SelectSeq(refData, LAMBDA d : d.species_name = sp),
                LAMBDA d : speciesOption(d.species_name, d.chr_id))
        ofReference ==
            IF rgd = NoGenome THEN <<>>
            ELSE map(rgd.chromosomeSizes, LAMBDA chr : refOption(chr.chromosome))
    IN  flat(map(names, ofSpecies)) \o ofReference

-----------------------------------------------------------------------------
(* The page's handlers.  Every handler ends with the re-render its state   *)
(* change causes; effects run after the render, before the next event.     *)

\* number of loadExampleData calls that may be suspended at once
MaxInflight == 2

\* the files a load fetches: the three of Promise.all, then the optional two
Required == {"synteny_data.csv", "species_data.csv", "ref_chromosome_sizes.csv"}
Optional == {"ref_gene_annotations.csv", "bp.csv"}

\* what the fetches of one load end with: the files whose fetch fails
Outcomes ==
    {{}} \cup {{f} : f \in Required \cup Optional} \cup {Optional}
        \cup {{"species_data.csv", "bp.csv"}}

\* mutant: only the fetch of the synteny file can make the load throw
thrownMutSyntenyOnly(outcome) == "synteny_data.csv" \in outcome

\* mutant: a failed fetch of an optional file is not caught
thrownMutOptional(outcome) == outcome # {}

\* the try block leaves for the outer catch: Promise.all rejects when one
\* of its fetches does; the optional fetches have a catch of their own
thrown(outcome) == outcome \cap Required # {}

\* mutant: the error of a failed load is an empty message
messageMutEmpty(outcome) == NULL

\* err instanceof Error ? err.message : 'An error occurred'
message(outcome) == "Failed to fetch"

\* what localStorage holds when the page is opened
StoredAtOpen == {NoItem, Item(<<>>), Item(<<"A", "Z">>)}

\* every list that keeps some entries of s, in order
RECURSIVE SubLists(_)
SubLists(s) ==
    IF s = <<>> THEN {<<>>}
    ELSE LET rest == SubLists(Tail(s))
         IN  rest \cup {<<Head(s)>> \o t : t \in rest}

\* the render that follows a state change: the memo is recomputed from the
\* new state and the effects of that render are due
Render ==
    /\ filteredData' = filteredDataMemo(referenceData', syntenyData',
                           selectedSpecies', selectedChromosomes',
                           referenceGenomeData')
    /\ memoLeft' = memoArrays(referenceData', syntenyData',
                        selectedSpecies', selectedChromosomes',
                        referenceGenomeData')
    /\ effectsPending' = TRUE
    /\ detFollowsPage
    /\ UNCHANGED <<linVars, gestures, hoverVars>>

\* the user can act on the page: the effects of the last render have run
CanAct == ~effectsPending

\* the page shows its controls (not the error view)
ControlsShown == error = NULL

\* loadExampleData up to its first await
StartLoad(path) ==
    /\ Len(inflight) < MaxInflight
    /\ inflight' = Append(inflight, path)
    /\ requested' = Item(path)
    /\ isLoading' = TRUE
    /\ error' = NULL
    /\ UNCHANGED <<dataVars, selectedSpecies, selectedChromosomes,
                   isInitialized, uploadedFiles, storage, selVars, fileVars,
                   lastLoad, effectVars, lifeVars>>
    /\ failedPath' = NoItem
    /\ Render

\* onLoadExample of the HUD bar and of the example drawer
LoadExample ==
    /\ CanAct /\ ControlsShown
    /\ \E path \in Paths : StartLoad(path)

\* the Retry button of the error view: loadExampleData()
Retry ==
    /\ CanAct /\ ~ControlsShown
    /\ StartLoad(DefaultPath)

\* loadExampleData from its last await to its end
CompleteLoad ==
    /\ CanAct
    /\ \E i \in 1..Len(inflight), outcome \in Outcomes :
        LET files == Files(inflight[i])
        IN  /\ inflight' = SubSeq(inflight, 1, i - 1)
                              \o SubSeq(inflight, i + 1, Len(inflight))
            /\ lastLoad' = Item([path |-> inflight[i], failed |-> outcome])
            /\ UNCHANGED requested
            /\ IF thrown(outcome)
               THEN /\ error' = message(outcome)
                    /\ failedPath' = Item(inflight[i])
                    /\ UNCHANGED dataVars
               ELSE /\ syntenyData' = files.synteny
                    /\ referenceData' = files.species
                    /\ referenceGenomeData' =
                         [chromosomeSizes |-> files.sizes,
                          geneAnnotations |->
                              IF "ref_gene_annotations.csv" \in outcome THEN <<>>
                              ELSE files.annotations,
                          breakpoints |->
                              IF "bp.csv" \in outcome THEN <<>>
                              ELSE files.breakpoints]
                    /\ UNCHANGED <<error, failedPath>>
            /\ isLoading' = FALSE
            /\ UNCHANGED <<selectedSpecies, selectedChromosomes, isInitialized,
                           uploadedFiles, storage, selVars, fileVars,
                           effectVars, lifeVars>>
            /\ Render

\* canGenerateVisualization
canGenerateVisualization ==
    uploadedFiles.synteny /\ uploadedFiles.species /\ uploadedFiles.reference

\* handleSyntenyData
UploadSynteny ==
    /\ CanAct /\ ControlsShown
    /\ \E path \in Paths :
        /\ syntenyData' = Files(path).synteny
        /\ uploadedFiles' = [uploadedFiles EXCEPT !.synteny = TRUE]
    /\ UNCHANGED <<referenceData, referenceGenomeData, selectedSpecies,
                   selectedChromosomes, isInitialized, isLoading, error,
                   storage, inflight, selVars, fileVars, lastLoad,
                   failedPath, effectVars, lifeVars>>
    /\ requested' = NoItem
    /\ Render

\* handleSpeciesData
UploadSpecies ==
    /\ CanAct /\ ControlsShown
    /\ \E path \in Paths :
        /\ referenceData' = Files(path).species
        /\ uploadedFiles' = [uploadedFiles EXCEPT !.species = TRUE]
    /\ UNCHANGED <<syntenyData, referenceGenomeData, selectedSpecies,
                   selectedChromosomes, isInitialized, isLoading, error,
                   storage, inflight, selVars, fileVars, lastLoad,
                   failedPath, effectVars, lifeVars>>
    /\ requested' = NoItem
    /\ Render

\* handleChromosomeData: the uploaded rows go to geneAnnotations of the
\* reference genome data already held, if any is held
UploadReference ==
    /\ CanAct /\ ControlsShown
    /\ \E path \in Paths :
        /\ referenceGenomeData' =
             IF referenceGenomeData # NoGenome
             THEN [chromosomeSizes |-> referenceGenomeData.chromosomeSizes,
                   geneAnnotations |-> Files(path).sizes]
             ELSE NoGenome
        /\ uploadedFiles' = [uploadedFiles EXCEPT !.reference = TRUE]
        /\ uploadedRows' = Item(Files(path).sizes)
    /\ UNCHANGED <<syntenyData, referenceData, selectedSpecies,
                   selectedChromosomes, isInitialized, isLoading, error,
                   storage, inflight, selVars, download, lastLoad,
                   failedPath, effectVars, lifeVars>>
    /\ requested' = NoItem
    /\ Render

\* onDataLoad.annotations
UploadAnnotations ==
    /\ CanAct /\ ControlsShown
    /\ \E path \in Paths :
        /\ referenceGenomeData' =
             IF referenceGenomeData # NoGenome
             THEN [chromosomeSizes |-> referenceGenomeData.chromosomeSizes,
                   geneAnnotations |-> Files(path).annotations]
             ELSE NoGenome
    /\ UNCHANGED <<syntenyData, referenceData, selectedSpecies,
                   selectedChromosomes, isInitialized, isLoading, error,
                   uploadedFiles, storage, inflight, selVars, fileVars, lastLoad,
                   failedPath, effectVars, lifeVars>>
    /\ requested' = NoItem
    /\ Render

\* setSelectedSpecies, called by the species multi-select of the HUD bar
SetSelectedSpecies ==
    /\ CanAct /\ ControlsShown
    /\ \E v \in SubLists(speciesOptions(referenceData)) :
        /\ v # selectedSpecies
        /\ selectedSpecies' = v
    /\ speciesFrom' = "user"
    /\ UNCHANGED <<dataVars, selectedChromosomes, isInitialized, isLoading,
                   error, uploadedFiles, storage, inflight, selVars, fileVars,
                   loadVars, saveDeps, lifeVars>>
    /\ Render

\* setSelectedChromosomes, called by the chromosome multi-select
SetSelectedChromosomes ==
    /\ CanAct /\ ControlsShown
    /\ \E v \in SubLists(chromosomeOptions(referenceData, referenceGenomeData)) :
        /\ v # selectedChromosomes
        /\ selectedChromosomes' = v
    /\ UNCHANGED <<dataVars, selectedSpecies, isInitialized, isLoading,
                   error, uploadedFiles, storage, inflight, selVars, sideVars>>
    /\ Render

\* mutant: the save effect runs on mount only
saveEffectMutOnce(stored) ==
    IF saveDeps = NoItem /\ isInitialized THEN Item(selectedSpecies) ELSE stored

\* the save effect in the commit of a render: it runs when selectedSpecies
\* or isInitialized is not what it last ran with, and writes the rendered
\* selection once isInitialized; stored is what localStorage holds before
saveEffect(stored) ==
    IF saveDeps # Item(<<selectedSpecies, isInitialized>>) /\ isInitialized
    THEN Item(selectedSpecies) ELSE stored

\* the effects with no dependencies, run when the page mounts:
\* document.addEventListener('fullscreenchange', handleFullscreenChange)
\* and new ResizeObserver(...).observe(mainCardRef.current)
PageListeners ==
    {<<"ChromoViz", "fullscreenchange">>, <<"ChromoViz", "ResizeObserver">>}

\* the effects of the last render, in the order the component declares
\* them: initialise from localStorage (on mount only), default selection,
\* save to localStorage, and on mount the listeners.  Each effect sees the
\* state of the render it belongs to.
RunEffects ==
    /\ effectsPending
    /\ lastLoad' = NoItem
    /\ UNCHANGED <<requested, failedPath>>
    /\ saveDeps' = Item(<<selectedSpecies, isInitialized>>)
    /\ listeners' = (IF ~isInitialized THEN listeners \cup PageListeners
                                       ELSE listeners)
    /\ UNCHANGED <<dataVars, isLoading, error, uploadedFiles, inflight,
                   selVars, fileVars, mounted>>
    /\ IF ~isInitialized
       THEN \* mount: only the first effect acts
            /\ selectedSpecies' =
                 IF storage # NoItem THEN storage[1] ELSE selectedSpecies
            /\ speciesFrom' =
                 (IF storage # NoItem THEN "localStorage" ELSE speciesFrom)
            /\ isInitialized' = TRUE
            /\ UNCHANGED <<selectedChromosomes, storage>>
            /\ Render
       ELSE IF Len(referenceData) > 0 /\ Len(selectedSpecies) = 0
       THEN \* default selection, then the save effect with the rendered
            \* (still empty) selection
            /\ selectedSpecies' = speciesOptions(referenceData)
            /\ selectedChromosomes' =
                 chromosomeOptions(referenceData, referenceGenomeData)
            /\ storage' = saveEffect(Item(speciesOptions(referenceData)))
            /\ speciesFrom' = "default"
            /\ UNCHANGED isInitialized
            /\ Render
       ELSE /\ storage' = saveEffect(storage)
            /\ effectsPending' = FALSE
            /\ UNCHANGED <<selectedSpecies, selectedChromosomes,
                           isInitialized, filteredData, memoLeft, linVars,
                           detVars, gestures, hoverVars, speciesFrom>>

\* NavBar mounts: window.addEventListener('scroll', handleScroll, ...)
NavListeners == {<<"NavBar", "scroll">>}

mountNavBar ==
    /\ "NavBar" \notin mounted
    /\ mounted' = mounted \cup {"NavBar"}
    /\ listeners' = listeners \cup NavListeners
    /\ UNCHANGED <<selVars, pageVars, linVars, detVars, gestures, hoverVars,
                   fileVars, loadVars, effectVars>>

\* NavBar unmounts: the cleanup of its effect,
\* window.removeEventListener('scroll', handleScroll)
unmountNavBar ==
    /\ "NavBar" \in mounted
    /\ mounted' = mounted \ {"NavBar"}
    /\ listeners' = listeners \ NavListeners
    /\ UNCHANGED <<selVars, pageVars, linVars, detVars, gestures, hoverVars,
                   fileVars, loadVars, effectVars>>

\* the page is there
pageMounted == "ChromoViz" \in mounted

\* the page unmounts (the user leaves it): the cleanups of its effects,
\* removeEventListener and resizeObserver.disconnect, and the detailed view
\* goes with it; what is left of the state is what the page last held
unmountPage ==
    /\ pageMounted /\ CanAct
    /\ mounted' = mounted \ {"ChromoViz"}
    /\ listeners' = listeners \ PageListeners
    /\ selectedSynteny' = <<>>
    /\ toggleLog' = <<>>
    /\ UNCHANGED <<pageVars, linVars, gestures, hoverVars, fileVars, loadVars,
                   effectVars>>
    /\ detFollowsPage

PageInit ==
    /\ syntenyData = <<>>
    /\ referenceData = <<>>
    /\ referenceGenomeData = NoGenome
    /\ selectedSpecies = <<>>
    /\ selectedChromosomes = <<>>
    /\ isInitialized = FALSE
    /\ isLoading = FALSE
    /\ error = NULL
    /\ uploadedFiles = [synteny |-> FALSE, species |-> FALSE, reference |-> FALSE]
    /\ storage \in StoredAtOpen
    /\ inflight = <<>>
    /\ filteredData = filteredDataMemo(<<>>, <<>>, <<>>, <<>>, NoGenome)
    /\ memoLeft = memoArrays(<<>>, <<>>, <<>>, <<>>, NoGenome)
    /\ effectsPending = TRUE

PageNext ==
    \/ LoadExample
    \/ Retry
    \/ CompleteLoad
    \/ UploadSynteny
    \/ UploadSpecies
    \/ UploadReference
    \/ UploadAnnotations
    \/ SetSelectedSpecies
    \/ SetSelectedChromosomes
    \/ RunEffects

-----------------------------------------------------------------------------
(* Hover highlighting of the linear view (ChromosomeSynteny).  The view is *)
(* mounted by its page with the referenceData and syntenyData it is given. *)
(* The repository holds two versions of the component; linearView says     *)
(* which of them the page is built with.                                   *)

\* the versions of ChromosomeSynteny: src/unnamed/part_000 and
\* src/public/old_data/morebk/chromosome-synteny.bk
Versions == {"part_000", "bk"}

\* SYNTENY_COLORS.OPACITY, SYNTENY_COLORS.HOVER_OPACITY, the opacity of the
\* dimmed elements and the opacity mouseout gives a block, in hundredths
OPACITY == 35
HOVER_OPACITY == 70
dimmedOpacity == 10
blockOpacity == 100

\* stroke-width of a block as drawn, and of the element under the pointer
blockStroke == 2
hoverStroke == 3

\* chromosome-synteny.bk: SYNTENY_COLORS.OPACITY.DEFAULT, .HOVER, .ACTIVE,
\* the opacity a block is drawn with and the one mouseover gives it
bk_DEFAULT == 20
bk_HOVER == 80
bk_ACTIVE == 90
bk_blockOpacity == 80
bk_blockHover == 100

\* a row of a '-' strand alignment
Reverse(link) == [link EXCEPT !.query_strand = "-"]

\* the props the page hands to the view, one after the other: nothing
\* loaded; two links of one chromosome pair, links of two other pairs (one
\* on the reverse strand) and a link of a species that is not displayed; a
\* single link
ViewData ==
    <<[referenceData |-> <<>>, syntenyData |-> <<>>],
      [referenceData |-> <<Chr("A", "1", 20), Chr("A", "2", 10),
                           Chr("R", "1", 50), Chr("R", "2", 40)>>,
       syntenyData |-> <<Link("1", "1", 0, "A"), Link("1", "1", 1, "A"),
                         Link("2", "1", 0, "A"),
                         Reverse(Link("1", "2", 0, "A")),
                         Link("1", "1", 0, "B")>>],
      [referenceData |-> <<Chr("C", "1", 15), Chr("R", "1", 50)>>,
       syntenyData |-> <<Link("1", "1", 0, "C")>>]>>

AlignmentFilters == {"all", "forward", "reverse"}

\* filterSyntenyData
filterSyntenyData(data, filter) ==
    IF filter = "forward" THEN SelectSeq(data, LAMBDA link : link.query_strand = "+")
    ELSE IF filter = "reverse" THEN SelectSeq(data, LAMBDA link : link.query_strand = "-")
    ELSE data

\* the links the render effect draws: those of the filter whose two
\* species are among the species of referenceData
drawnLinks(refData, synData, filter) ==
    LET uniqueSpecies == {refData[i].species_name : i \in 1..Len(refData)}
    IN  SelectSeq(filterSyntenyData(synData, filter),
            LAMBDA link : /\ link.ref_species \in uniqueSpecies
                          /\ link.query_name \in uniqueSpecies)

\* the elements drawn for a link: two rects of class matching-block and a
\* path of class synteny-ribbon
Parts == {"source", "target", "ribbon"}

isBlock(e) == e[2] # "ribbon"

\* the elements of the svg, by the index of their link
elements(links) == (1..Len(links)) \X Parts

\* .attr("data-link-id", `${link.ref_chr}-${link.query_chr}`)
dataLinkId(link) == link.ref_chr \o "-" \o link.query_chr

\* the links on screen
onScreen == drawnLinks(viewReference, viewSynteny, alignmentFilter)

\* the opacity attribute of the elements as the effect draws them: none on
\* a block, OPACITY on a ribbon
opacityDrawn(links) ==
    [e \in elements(links) |-> IF isBlock(e) THEN NoNumber ELSE OPACITY]

\* chromosome-synteny.bk: 0.8 on a block, OPACITY.DEFAULT on a ribbon
bk_opacityDrawn(links) ==
    [e \in elements(links) |-> IF isBlock(e) THEN bk_blockOpacity ELSE bk_DEFAULT]

\* the stroke-width attribute of the elements as the effect draws them
strokeDrawn(links) ==
    [e \in elements(links) |-> IF isBlock(e) THEN blockStroke ELSE NoNumber]

\* handleMouseOver on element e, as far as opacity goes: every block and
\* ribbon is dimmed, then those of the link id of the target get the hover
\* opacity
handleMouseOver(attrs, links, e) ==
    LET linkId == dataLinkId(links[e[1]])
        dimmed == [x \in DOMAIN attrs |-> dimmedOpacity]
    IN  [x \in DOMAIN attrs |->
            IF dataLinkId(links[x[1]]) = linkId THEN HOVER_OPACITY
            ELSE dimmed[x]]

\* mutant: mouseout resets the ribbons only
handleMouseOutMutRibbons(attrs) ==
    [x \in DOMAIN attrs |-> IF isBlock(x) THEN attrs[x] ELSE OPACITY]

\* handleMouseOut, as far as opacity goes
handleMouseOut(attrs) ==
    [x \in DOMAIN attrs |-> IF isBlock(x) THEN blockOpacity ELSE OPACITY]

\* chromosome-synteny.bk, handleMouseOver of a link, as far as opacity
\* goes: the ribbons and the blocks of the link's id are highlighted
bk_handleMouseOver(attrs, links, e) ==
    LET linkId == dataLinkId(links[e[1]])
    IN  [x \in DOMAIN attrs |->
            IF dataLinkId(links[x[1]]) = linkId
            THEN IF isBlock(x) THEN bk_blockHover ELSE bk_HOVER
            ELSE attrs[x]]

\* chromosome-synteny.bk, handleMouseOut, as far as opacity goes
bk_handleMouseOut(attrs) ==
    [x \in DOMAIN attrs |-> IF isBlock(x) THEN bk_blockOpacity ELSE bk_DEFAULT]

\* the render effect of the view after its props or its alignment filter
\* changed: everything is drawn anew
viewRedraw ==
    LET links == drawnLinks(viewReference', viewSynteny', alignmentFilter')
    IN  /\ opacity' = IF linearView = "bk" THEN bk_opacityDrawn(links)
                       ELSE opacityDrawn(links)
        /\ strokeWidth' = strokeDrawn(links)
        /\ hovered' = NoItem
        /\ activeRibbon' = NoItem
        /\ UNCHANGED <<hoverInfo, linearView>>
        /\ linRedraw
        /\ UNCHANGED <<selVars, sideVars, pageVars, detVars, gestures>>

\* the page renders the view with other data
viewProps ==
    \E i \in 1..Len(ViewData) :
        /\ <<viewReference, viewSynteny>> #
               <<ViewData[i].referenceData, ViewData[i].syntenyData>>
        /\ viewReference' = ViewData[i].referenceData
        /\ viewSynteny' = ViewData[i].syntenyData
        /\ UNCHANGED alignmentFilter
        /\ viewRedraw

\* the three alignment buttons
setAlignmentFilter ==
    \E f \in AlignmentFilters :
        /\ f # alignmentFilter
        /\ alignmentFilter' = f
        /\ UNCHANGED <<viewReference, viewSynteny>>
        /\ viewRedraw

\* the pointer enters a block or a ribbon
mouseover ==
    \E e \in DOMAIN opacity :
        /\ hovered = NoItem
        /\ hovered' = Item(e)
        /\ IF linearView = "bk"
           THEN /\ opacity' = bk_handleMouseOver(opacity, onScreen, e)
                /\ strokeWidth' =
                     [x \in DOMAIN strokeWidth |->
                         IF /\ isBlock(x)
                            /\ dataLinkId(onScreen[x[1]]) = dataLinkId(onScreen[e[1]])
                         THEN hoverStroke ELSE strokeWidth[x]]
           ELSE /\ opacity' = handleMouseOver(opacity, onScreen, e)
                /\ strokeWidth' = [strokeWidth EXCEPT ![e] = hoverStroke]
        /\ hoverInfo' = Item(onScreen[e[1]])
        /\ UNCHANGED <<viewReference, viewSynteny, alignmentFilter,
                       activeRibbon, linearView>>
        /\ UNCHANGED <<selVars, sideVars, pageVars, linVars, detVars, gestures>>

\* the pointer leaves the block or ribbon it is on
mouseout ==
    /\ hovered # NoItem
    /\ hovered' = NoItem
    /\ opacity' = IF linearView = "bk" THEN bk_handleMouseOut(opacity)
                  ELSE handleMouseOut(opacity)
    /\ strokeWidth' =
         [x \in DOMAIN strokeWidth |->
             IF isBlock(x) THEN blockStroke ELSE strokeWidth[x]]
    /\ hoverInfo' = NoItem
    /\ UNCHANGED <<viewReference, viewSynteny, alignmentFilter, activeRibbon,
                   linearView>>
    /\ UNCHANGED <<selVars, sideVars, pageVars, linVars, detVars, gestures>>

\* chromosome-synteny.bk: a click on the ribbon under the pointer toggles
\* its 'active' class; every ribbon goes back to OPACITY.DEFAULT, the one
\* made active gets OPACITY.ACTIVE
ribbonClick ==
    /\ linearView = "bk"
    /\ hovered # NoItem /\ ~isBlock(hovered[1])
    /\ LET this == hovered[1]
           isActive == activeRibbon = Item(this)
       IN  /\ activeRibbon' = IF isActive THEN NoItem ELSE Item(this)
           /\ opacity' =
                [x \in DOMAIN opacity |->
                    IF isBlock(x) THEN opacity[x]
                    ELSE IF x = this /\ ~isActive THEN bk_ACTIVE
                    ELSE bk_DEFAULT]
    /\ UNCHANGED <<viewReference, viewSynteny, alignmentFilter, strokeWidth,
                   hovered, hoverInfo, linearView>>
    /\ UNCHANGED <<selVars, sideVars, pageVars, linVars, detVars, gestures>>

HoverInit ==
    /\ linearView \in Versions
    /\ activeRibbon = NoItem
    /\ viewReference = ViewData[1].referenceData
    /\ viewSynteny = ViewData[1].syntenyData
    /\ alignmentFilter = "all"
    /\ opacity = opacityDrawn(<<>>)
    /\ strokeWidth = strokeDrawn(<<>>)
    /\ hovered = NoItem
    /\ hoverInfo = NoItem

HoverNext ==
    viewProps \/ setAlignmentFilter \/ mouseover \/ mouseout \/ ribbonClick

-----------------------------------------------------------------------------
Init ==
    SelInit /\ PageInit /\ LinInit /\ DetInit /\ gestures = 0 /\ HoverInit
        /\ SideInit

\* the page built with the current version of the linear view: only the
\* hover highlighting differs between the versions
BuiltInit == Init /\ linearView = "part_000"

\* the page's block selection on its own: the handlers read neither
\* localStorage nor the linear view, so one way of opening the page is
\* followed
SelectionInit == Init /\ storage = NoItem /\ linearView = "part_000"

SpecSelection == SelectionInit /\ [][SelNext]_vars

\* the page's data, filters and effects
SpecPage == Init /\ [][PageNext]_vars

\* the page as far as filteredData goes: loads that do not overlap, uploads
\* of the synteny and the species file, the two multi-selects, the effects
FilterNext ==
    \/ (LoadExample /\ inflight = <<>>)
    \/ Retry
    \/ CompleteLoad
    \/ UploadSynteny
    \/ UploadSpecies
    \/ SetSelectedSpecies
    \/ SetSelectedChromosomes
    \/ RunEffects

SpecFilter == BuiltInit /\ [][FilterNext]_vars

\* the zoom controls of the two views; the detailed view is there once the
\* first block is selected, before any data is loaded (the chromosomes of
\* the block are then not among the rows the view is given) or after the
\* default example has been loaded
BaseLink == Link("1", "1", 0, "A")

\* the page is at rest: no load is going on and the effects have run
AtRest == CanAct /\ inflight = <<>>

\* the default example is loaded once, before the first gesture
loadDefault ==
    /\ AtRest /\ syntenyData = <<>> /\ selectedSynteny = <<>> /\ gestures = 0
    /\ StartLoad(DefaultPath)

\* every fetch of the load succeeds
defaultLoaded ==
    /\ CompleteLoad
    /\ lastLoad' = Item([path |-> DefaultPath, failed |-> {}])

ZoomNext ==
    \/ (SyntenyToggleOf(BaseLink) /\ selectedSynteny = <<>> /\ AtRest)
    \/ loadDefault
    \/ defaultLoaded
    \/ RunEffects
    \/ detRerun
    \/ linZoomIn
    \/ linZoomOut
    \/ linReset
    \/ linWheel
    \/ linPan
    \/ handleZoomIn
    \/ handleZoomOut
    \/ handleReset
    \/ detWheel
    \/ detPan
    \/ toggleGraphFixed

SpecZoom == BuiltInit /\ [][ZoomNext]_vars

\* the components' lives and the detailed view's lock: the blocks the user
\* clicks are the base block and a block of a reference chromosome that the
\* default example has no row for
AbsentLink == Link("2", "1", 0, "A")

toggleViewLink ==
    /\ pageMounted /\ AtRest
    /\ \E link \in {BaseLink, AbsentLink} : SyntenyToggleOf(link)

ViewNext ==
    \/ mountNavBar
    \/ unmountNavBar
    \/ unmountPage
    \/ (pageMounted /\ loadDefault)
    \/ (pageMounted /\ defaultLoaded)
    \/ (pageMounted /\ SetSelectedSpecies)
    \/ RunEffects
    \/ toggleViewLink
    \/ toggleGraphFixed
    \/ detRerun
    \/ detWheel

SpecView == BuiltInit /\ [][ViewNext]_vars

\* the uploads of the user's own files, from a page with no data
UploadNext ==
    \/ UploadSynteny
    \/ UploadSpecies
    \/ UploadReference
    \/ UploadAnnotations
    \/ RunEffects

SpecUpload == BuiltInit /\ [][UploadNext]_vars

\* a session of loads that succeed, uploads, filter changes and clicks on
\* the blocks that are displayed: the views are given filteredData.syntenyData, and a
\* click hands one of its rows to handleSyntenyToggle
clickBlock ==
    /\ CanAct /\ ControlsShown
    /\ \E i \in 1..Len(filteredData.syntenyData) :
           SyntenyToggleOf(filteredData.syntenyData[i])

\* a load of which no fetch fails
loadSucceeds ==
    /\ CompleteLoad
    /\ lastLoad'[1].failed = {}

SessionNext ==
    \/ (LoadExample /\ inflight = <<>>)
    \/ loadSucceeds
    \/ UploadSynteny
    \/ SetSelectedSpecies
    \/ RunEffects
    \/ clickBlock

SpecSession == BuiltInit /\ [][SessionNext]_vars

\* the hover highlighting of the linear view
SpecHover == Init /\ [][HoverNext]_vars

\* the loads of example data, which may overlap, and the error view
LoadNext == LoadExample \/ Retry \/ CompleteLoad \/ RunEffects

SpecLoad == BuiltInit /\ [][LoadNext]_vars

\* the selection table's export
SpecExport == BuiltInit /\ [][ExportNext]_vars

-----------------------------------------------------------------------------
(* Claims about the block selection, checked under SpecSelection           *)

\* the key the selection is compared by
KeyOf(l) == <<l.ref_chr, l.query_chr, l.ref_start>>

\* number of entries of s that carry link's key
KeyCount(s, link) == Cardinality({i \in 1..Len(s) : KeyOf(s[i]) = KeyOf(link)})

\* the two most recent toggle calls were for the same block b, and the
\* selection before the first of them held no entry with b's key
ToggledTwice ==
    /\ Len(toggleLog) >= 2
    /\ toggleLog[Len(toggleLog)].link = toggleLog[Len(toggleLog) - 1].link
    /\ KeyCount(toggleLog[Len(toggleLog) - 1].before, toggleLog[Len(toggleLog)].link) = 0

\* C1: toggling the same block twice in a row, starting from a selection S
\* that holds no entry with the block's key, leaves the selection equal to S
\* (same entries, same order).
C1_ToggleTwiceRestores ==
    ToggledTwice => selectedSynteny = toggleLog[Len(toggleLog) - 1].before

\* C1 witness: a block was toggled twice in a row on top of a non-empty
\* selection that shares ref_chr and query_chr with it.
C1_Witness ==
    /\ ToggledTwice
    /\ Len(toggleLog[Len(toggleLog) - 1].before) >= 2
    /\ \E i \in 1..Len(selectedSynteny) :
           /\ selectedSynteny[i].ref_chr = toggleLog[Len(toggleLog)].link.ref_chr
           /\ selectedSynteny[i].query_chr = toggleLog[Len(toggleLog)].link.query_chr

\* s is t with some entries left out, order kept
RECURSIVE IsSubSeq(_, _)
IsSubSeq(s, t) ==
    IF s = <<>> THEN TRUE
    ELSE IF t = <<>> THEN FALSE
    ELSE IF Head(s) = Head(t) THEN IsSubSeq(Tail(s), Tail(t))
    ELSE IsSubSeq(s, Tail(t))

\* C2: a toggle of block b compares by (ref_chr, query_chr, ref_start) only:
\* when an entry with b's key is selected, the result is the previous
\* selection without the entries of that key, the others in their order;
\* otherwise it is the previous selection with b appended.
C2_ToggleByKey ==
    toggleLog # <<>> =>
        LET e == toggleLog[Len(toggleLog)]
            n == KeyCount(e.before, e.link)
        IN  IF n > 0
            THEN /\ KeyCount(selectedSynteny, e.link) = 0
                 /\ IsSubSeq(selectedSynteny, e.before)
                 /\ Len(selectedSynteny) = Len(e.before) - n
            ELSE /\ Len(selectedSynteny) = Len(e.before) + 1
                 /\ selectedSynteny[Len(selectedSynteny)] = e.link
                 /\ SubSeq(selectedSynteny, 1, Len(e.before)) = e.before

\* C2 witness: the toggled row differs from the selected row of the same
\* key (another query_name), and that selected row was removed while other
\* entries stayed.
C2_Witness ==
    /\ toggleLog # <<>>
    /\ LET e == toggleLog[Len(toggleLog)]
       IN  /\ KeyCount(e.before, e.link) > 0
           /\ ~includes(e.before, e.link)
           /\ Len(selectedSynteny) >= 1

-----------------------------------------------------------------------------
(* Claims about filteredData, checked under SpecFilter                     *)

\* the species names that occur in a list of chromosome rows
SpeciesOf(rows) == {rows[i].species_name : i \in 1..Len(rows)}

\* the reference species of the loaded data (NULL when no synteny is loaded)
RefSp == IF syntenyData = <<>> THEN NULL ELSE syntenyData[1].ref_species

\* reference genome data is loaded, and so is synteny data (which names the
\* reference species)
ReferenceLoaded == referenceGenomeData # NoGenome /\ syntenyData # <<>>

\* reference chromosome sizes are loaded: at least one row
SizesLoaded ==
    referenceGenomeData # NoGenome /\ referenceGenomeData.chromosomeSizes # <<>>

\* the result holds every loaded synteny row
AllSyntenyKept == Range(syntenyData) \subseteq Range(filteredData.syntenyData)

\* C3 as stated: with an empty species selection the result holds every
\* species of the loaded referenceData and every loaded synteny row,
\* whatever the chromosome selection holds.
C3_Original ==
    selectedSpecies = <<>> =>
        /\ SpeciesOf(referenceData) \subseteq SpeciesOf(filteredData.referenceData)
        /\ AllSyntenyKept

\* C3 amended: with an empty species selection and an empty chromosome
\* selection the result holds every loaded synteny row and every species of
\* the loaded referenceData; the reference species, whose rows are rebuilt
\* from the chromosome sizes, is there whenever at least one chromosome
\* size row is loaded.
C3_EmptySelectionsShowAll ==
    (selectedSpecies = <<>> /\ selectedChromosomes = <<>>) =>
        /\ AllSyntenyKept
        /\ \A sp \in SpeciesOf(referenceData) :
               \/ sp \in SpeciesOf(filteredData.referenceData)
               \/ (sp = RefSp /\ ReferenceLoaded /\ ~SizesLoaded)
        /\ (ReferenceLoaded /\ SizesLoaded) =>
               RefSp \in SpeciesOf(filteredData.referenceData)

\* C3 witness: a render with both selections empty and a full dataset:
\* two species besides the reference, and reference rows, in the result.
C3_Witness ==
    /\ selectedSpecies = <<>> /\ selectedChromosomes = <<>>
    /\ ReferenceLoaded /\ SizesLoaded
    /\ Cardinality(SpeciesOf(referenceData) \ {RefSp}) >= 2
    /\ Cardinality(SpeciesOf(filteredData.referenceData)) >= 3

\* the selected species that occur in the loaded data, with the reference
SelectedAndReference ==
    (Range(selectedSpecies) \cap SpeciesOf(referenceData)) \cup {RefSp}

\* C4 as stated: with a non-empty species selection and loaded data the
\* species of the filtered referenceData are exactly the selected species
\* that occur in the data plus the reference species, for every chromosome
\* selection.
C4_Original ==
    (selectedSpecies # <<>> /\ ReferenceLoaded /\ SizesLoaded) =>
        SpeciesOf(filteredData.referenceData) = SelectedAndReference

\* C4 amended: the same, when the chromosome selection is empty.
C4_SelectedSpeciesPlusReference ==
    (selectedSpecies # <<>> /\ selectedChromosomes = <<>>
        /\ ReferenceLoaded /\ SizesLoaded) =>
        SpeciesOf(filteredData.referenceData) = SelectedAndReference

\* C4 witness: one of two loaded species is selected, no chromosome is, and
\* the result holds that species and the reference.
C4_Witness ==
    /\ selectedSpecies # <<>> /\ selectedChromosomes = <<>>
    /\ ReferenceLoaded /\ SizesLoaded
    /\ Cardinality(SpeciesOf(referenceData) \ {RefSp}) >= 2
    /\ Cardinality(SpeciesOf(filteredData.referenceData)) = 2

\* in rows, no row of the reference species is followed by a row of
\* another species
ReferenceLast(rows) ==
    \A i, j \in 1..Len(rows) :
        (i < j /\ rows[i].species_name = RefSp) => rows[j].species_name = RefSp

\* C5: in every result of the filter the rows of the reference species come
\* last, for every selection and every loaded data state, also when synteny
\* data is loaded and reference chromosome sizes are not.
C5_ReferenceRowsLast == ReferenceLast(filteredData.referenceData)

\* the option value of a chromosome row of the result
OptionOf(row) ==
    IF row.species_name = RefSp THEN "ref:" \o row.chr_id
    ELSE row.species_name \o ":" \o row.chr_id

\* what C6 says of a result
ConsistentWithSelection ==
    LET fr == filteredData.referenceData
        fs == filteredData.syntenyData
    IN  /\ Range(fs) \subseteq Range(syntenyData)
        /\ \A i \in 1..Len(fr) :
               fr[i].species_name # RefSp => fr[i] \in Range(referenceData)
        /\ selectedSpecies # <<>> =>
               /\ \A i \in 1..Len(fs) : fs[i].query_name \in Range(selectedSpecies)
               /\ \A i \in 1..Len(fr) :
                      fr[i].species_name # RefSp =>
                          fr[i].species_name \in Range(selectedSpecies)
        /\ selectedChromosomes # <<>> =>
               \A i \in 1..Len(fr) : OptionOf(fr[i]) \in Range(selectedChromosomes)

\* C6: every result of the filter is a subset of the loaded rows that
\* agrees with the species selection and with the chromosome selection.
C6_ResultConsistentWithSelection == ConsistentWithSelection

-----------------------------------------------------------------------------
(* Claims about the zoom controls, checked under SpecZoom                  *)

\* a scale lies within an extent given in tenths
WithinExtent(k, extentTenths) ==
    /\ k * 10 >= extentTenths[1] * Unit
    /\ k * 10 <= extentTenths[2] * Unit

\* C7: after any sequence of zoom-in, zoom-out, wheel and reset actions the
\* scale of each view's zoom transform and the zoom value the view shows
\* lie within the view's scale extent.
C7_ZoomWithinExtent ==
    /\ WithinExtent(linNodeZoom.k, scaleExtent)
    /\ WithinExtent(linZoom, scaleExtent)
    /\ detMounted =>
           /\ WithinExtent(detNodeZoom.k, zoomExtent)
           /\ WithinExtent(detZoom, zoomExtent)

\* the transform and the zoom value a reset has to leave
AtIdentity(t, zoom) == t.k = Unit /\ t.x = 0 /\ t.y = 0 /\ zoom = Unit

\* C8: a reset leaves the view's zoom transform at the identity and the
\* zoom value it shows at 1 (100%), from every zoom state that zoom-in,
\* zoom-out, wheel and pan lead to, in the linear and in the detailed view.
C8_ResetRestoresIdentity ==
    /\ linResetFrom # NoItem => AtIdentity(linNodeZoom, linZoom)
    /\ detResetFrom # NoItem =>
           AtIdentity(detNodeZoom, detZoom) /\ badge(detZoom) = 100

\* C8 witness: both views have been reset, each from a transform that was
\* scaled and moved.
C8_Witness ==
    /\ linResetFrom # NoItem /\ detResetFrom # NoItem
    /\ linResetFrom[1].k # Unit /\ linResetFrom[1].x # 0
    /\ detResetFrom[1].k # Unit /\ detResetFrom[1].x # 0

-----------------------------------------------------------------------------
(* Claims about the hover highlighting, checked under SpecHover            *)

\* the link identifier of an element of a list of links
LinkIdOf(links, e) == <<links[e[1]].ref_chr, links[e[1]].query_chr>>

\* the opacity an element is seen with: an element without the attribute is
\* opaque
Seen(attr) == IF attr = NoNumber THEN 100 ELSE attr

\* the opacity the built version draws an element with
DrawnOpacity(e) ==
    IF linearView = "bk" THEN (IF e[2] = "ribbon" THEN 20 ELSE 80)
    ELSE (IF e[2] = "ribbon" THEN 35 ELSE 100)

\* the opacity the built version highlights an element with
HoverOpacity(e) ==
    IF linearView = "bk" THEN (IF e[2] = "ribbon" THEN 80 ELSE 100) ELSE 70

\* an element is dimmed: at 0.1 in part_000, below what it is drawn with
\* in any version
Dimmed(attr, e) ==
    /\ Seen(attr) < DrawnOpacity(e)
    /\ linearView = "part_000" => attr = 10

\* C9: a mouseover of a block or ribbon of link identifier L sets every
\* block and ribbon of link identifier L to the hover opacity and every
\* block and ribbon of another link identifier to the dimmed opacity.
C9_HoverHighlightsLink ==
    [][(hovered = NoItem /\ hovered' # NoItem) =>
          \A e \in DOMAIN opacity' :
              IF LinkIdOf(onScreen, e) = LinkIdOf(onScreen, hovered'[1])
              THEN opacity'[e] = HoverOpacity(e)
              ELSE Dimmed(opacity'[e], e)]_vars

\* C10: once the pointer has left, every block and every ribbon is seen with
\* the opacity it is drawn with, after any sequence of hover events.
C10_MouseOutRestoresOpacity ==
    hovered = NoItem =>
        \A e \in DOMAIN opacity : Seen(opacity[e]) = DrawnOpacity(e)

\* C10 witness: the pointer has been on an element and has left it (the
\* blocks carry the opacity attribute that only mouseout gives them), with
\* elements of two link identifiers on screen.
C10_Witness ==
    /\ hovered = NoItem
    /\ linearView = "part_000"
    /\ \E e \in DOMAIN opacity : e[2] = "source" /\ opacity[e] = 100
    /\ \E e, f \in DOMAIN opacity : LinkIdOf(onScreen, e) # LinkIdOf(onScreen, f)

-----------------------------------------------------------------------------
(* Claims about the CSV export, checked under SpecExport                   *)

\* the parts of a text between the occurrences of a separator
RECURSIVE splitOn(_, _)
splitOn(text, sep) ==
    IF \A i \in 1..Len(text) : text[i] # sep THEN <<text>>
    ELSE LET at == CHOOSE i \in 1..Len(text) :
                       text[i] = sep /\ \A j \in 1..(i - 1) : text[j] # sep
         IN  <<SubSeq(text, 1, at - 1)>>
                 \o splitOn(SubSeq(text, at + 1, Len(text)), sep)

\* the lines of the exported file
ExportedLines == splitOn(download[1].text, LF)

\* C11: the exported CSV text is one header line followed by exactly as many
\* data lines as there are selected blocks, one per block in selection
\* order.
C11_ExportLineCount ==
    download # NoItem =>
        /\ Len(ExportedLines) = 1 + Len(download[1].data)
        /\ ExportedLines[1] = join(headers, Comma)
        /\ \A i \in 1..Len(download[1].data) :
               ExportedLines[i + 1] = join(cells(download[1].data[i]), Comma)

\* C12: the first line of the exported CSV is the ten headers in order, and
\* every data line holds exactly ten comma-separated fields, the values of
\* one selected block, Orientation being Forward exactly for strand '+'.
C12_ExportTenFields ==
    download # NoItem =>
        /\ splitOn(ExportedLines[1], Comma) = headers
        /\ Len(headers) = 10
        /\ \A n \in 2..Len(ExportedLines) :
               Len(splitOn(ExportedLines[n], Comma)) = 10
        /\ \A i \in 1..Len(download[1].data) :
               LET link == download[1].data[i]
                   fields == splitOn(join(cells(link), Comma), Comma)
               IN  /\ fields = cells(link)
                   /\ fields[10] = <<"Forward">> <=> link.query_strand = "+"

-----------------------------------------------------------------------------
(* Claims about the loads of example data, checked under SpecLoad          *)

\* a load has ended in this step, and these are the fetches of it that failed
EndedWith(fails) ==
    /\ Len(inflight') < Len(inflight)
    /\ lastLoad' # NoItem
    /\ lastLoad'[1].failed \in fails

\* the outcomes with a failed required fetch, and those where only optional
\* fetches failed
RequiredFailed == {o \in Outcomes : o \cap Required # {}}
OptionalFailed == {o \in Outcomes : o # {} /\ o \subseteq Optional}

\* C13: a load of which a required fetch fails ends with an error message
\* and loading off, the page then shows the error view with Retry, and
\* Retry clears the error and starts a new load.
C13_RequiredFailureShowsRetry ==
    [][/\ EndedWith(RequiredFailed) =>
              /\ error' # NULL
              /\ ~isLoading'
              /\ ~ControlsShown'
       /\ (~ControlsShown /\ Len(inflight') > Len(inflight)) =>
              /\ error' = NULL
              /\ isLoading'
              /\ inflight' = Append(inflight, DefaultPath)]_vars

\* C13 witness: a load has just failed for a required file while data of an
\* earlier load is shown, and the error view is up.
C13_Witness ==
    /\ lastLoad # NoItem
    /\ lastLoad[1].failed \in RequiredFailed
    /\ error # NULL /\ ~isLoading
    /\ syntenyData # <<>>

-----------------------------------------------------------------------------
(* Claim about the loaded chromosome rows, checked under SpecLoad          *)

\* a size above zero, and the centromere in order when both ends are there
ValidChromosome(size, cs, ce) ==
    /\ size > 0
    /\ (cs # NoNumber /\ ce # NoNumber) => cs <= ce

\* C15: after any load or upload every chromosome row held in state (species
\* rows and reference chromosome size rows) has a size above zero and
\* centromere_start <= centromere_end when both are present, whatever the
\* CSV rows carried.
C15_ChromosomeRowsValid ==
    /\ \A i \in 1..Len(referenceData) :
           ValidChromosome(referenceData[i].chr_size_bp,
                           referenceData[i].centromere_start,
                           referenceData[i].centromere_end)
    /\ referenceGenomeData # NoGenome =>
           \A i \in 1..Len(referenceGenomeData.chromosomeSizes) :
               LET chr == referenceGenomeData.chromosomeSizes[i]
               IN  ValidChromosome(chr.size, chr.centromere_start,
                                   chr.centromere_end)

-----------------------------------------------------------------------------
(* Claim about localStorage, checked under SpecFilter                      *)

\* C16: once the page has initialised from localStorage, whenever no effect
\* is pending the item 'selectedSpecies' is the JSON of the current
\* selectedSpecies list, after any selection changes, loads and uploads.
C16_StorageFollowsSelection ==
    (isInitialized /\ ~effectsPending) => storage = Item(selectedSpecies)

\* C16 witness: the user has narrowed the selection to one species of a
\* loaded dataset, and the effects have run.
C16_Witness ==
    /\ isInitialized /\ ~effectsPending
    /\ selectedSpecies = <<"B">>
    /\ Len(referenceData) > 1
    /\ storage = Item(<<"B">>)

-----------------------------------------------------------------------------
(* Claim about listeners and observers, checked under SpecView             *)

\* C17: every listener and observer a component registers (NavBar's scroll
\* listener, the fullscreenchange listeners, the ResizeObservers, the zoom
\* listeners on the detailed view's svg) is removed when its effect re-runs
\* or the component unmounts: none remains of a component that is not
\* mounted.
C17_ListenersRemovedOnUnmount ==
    /\ \A l \in listeners : l[1] \in mounted
    /\ ~detMounted => detListeners = {} /\ ~zoomAttached
    /\ leftBehind = {}

-----------------------------------------------------------------------------
(* Claim about the purity of filteredData, checked under SpecFilter        *)

\* C18: computing the filter result leaves the loaded referenceData,
\* syntenyData and reference genome data as they were: after every render
\* the arrays the memo was given hold what the state holds.
C18_FilterLeavesDataUnchanged ==
    /\ memoLeft.referenceData = referenceData
    /\ memoLeft.syntenyData = syntenyData
    /\ memoLeft.referenceGenomeData = referenceGenomeData

\* C18 witness: the memo has sorted rows that were not in order, and the
\* result differs from the species rows held in state.
C18_Witness ==
    /\ referenceGenomeData # NoGenome
    /\ memoLeft.filteredReference # <<>>
    /\ memoLeft.filteredReference = filteredData.referenceData
    /\ \E i \in 1..(Len(referenceData) - 1) :
           localeCompare(referenceData[i].species_name,
                         referenceData[i + 1].species_name) > 0
    /\ filteredData.referenceData # referenceData

-----------------------------------------------------------------------------
(* Claim about the uploads, checked under SpecUpload                       *)

\* C19: from a page with no data, once the synteny file, the species file
\* and the reference chromosome sizes have been uploaded, in any order, the
\* visualization can be generated and the reference genome data in state is
\* not null and holds the uploaded chromosome sizes.
C19_UploadsGiveReferenceGenome ==
    (uploadedFiles.synteny /\ uploadedFiles.species /\ uploadedRows # NoItem) =>
        /\ canGenerateVisualization
        /\ referenceGenomeData # NoGenome
        /\ referenceGenomeData.chromosomeSizes = uploadedRows[1]

-----------------------------------------------------------------------------
(* Claim about the lock of the detailed view, checked under SpecView       *)

\* C20: whenever the detailed view's graph is fixed, no zoom behaviour is
\* attached to its svg and its zoom transform does not change, after any
\* sequence of lock toggles, changes of the selected block (blocks whose
\* chromosomes are absent from the displayed data included), config changes
\* and resizes.
C20_FixedGraphCannotZoom ==
    /\ [](isGraphFixed => ~zoomAttached)
    /\ [][(isGraphFixed /\ isGraphFixed') => detNodeZoom' = detNodeZoom]_vars

-----------------------------------------------------------------------------
(* Claim about the default selection, checked under SpecFilter             *)

\* the default-selection effect sets the species selection in this step
DefaultApplied ==
    /\ effectsPending /\ isInitialized
    /\ selectedSpecies' # selectedSpecies

\* C21: the default selection is applied only when there is no saved
\* species selection: the default-selection effect never replaces a
\* species selection that was restored from localStorage or made by the
\* user.
C21_DefaultOnlyWithoutSelection ==
    [][DefaultApplied => speciesFrom \notin {"localStorage", "user"}]_vars

-----------------------------------------------------------------------------
(* Claims about overlapping loads, checked under SpecLoad                  *)

\* C22: when several loadExampleData calls overlap, then once all of them
\* have completed the installed synteny data, species data and reference
\* genome data are those of the most recently requested dataset, whatever
\* order the loads complete in.
C22_LastRequestedWins ==
    (inflight = <<>> /\ requested # NoItem /\ error = NULL) =>
        /\ syntenyData = Files(requested[1]).synteny
        /\ referenceData = Files(requested[1]).species
        /\ referenceGenomeData # NoGenome
        /\ referenceGenomeData.chromosomeSizes = Files(requested[1]).sizes

\* C23: isLoading is true in every state in which at least one
\* loadExampleData call is still in flight.
C23_LoadingWhileInFlight == inflight # <<>> => isLoading

-----------------------------------------------------------------------------
(* Claim about the selection and the loaded rows, checked under            *)
(* SpecSession                                                             *)

\* C24: after any sequence of example loads, file uploads, filter changes
\* and selection toggles, every block in selectedSynteny is a row of the
\* currently loaded syntenyData.
C24_SelectionWithinLoadedData ==
    \A i \in 1..Len(selectedSynteny) : selectedSynteny[i] \in Range(syntenyData)

-----------------------------------------------------------------------------
(* Claim about the filter selections and the loaded data, checked under    *)
(* SpecFilter                                                              *)

\* C25: in every quiescent state with data loaded, every name in
\* selectedSpecies is a species of the loaded referenceData and every value
\* in selectedChromosomes is a chromosome option of the loaded data, also
\* after a saved list was restored from localStorage and after a different
\* dataset was loaded.
C25_SelectionsWithinLoadedData ==
    (AtRest /\ Len(referenceData) > 0) =>
        /\ Range(selectedSpecies) \subseteq Range(speciesOptions(referenceData))
        /\ Range(selectedChromosomes) \subseteq
               Range(chromosomeOptions(referenceData, referenceGenomeData))

-----------------------------------------------------------------------------
(* Claim about the rows of the filter result, checked under SpecFilter     *)

\* the default example is what the page holds: its synteny rows all lie on
\* chromosomes its species file or its sizes file has a row for
DefaultHeld ==
    /\ syntenyData = Files(DefaultPath).synteny
    /\ referenceData = Files(DefaultPath).species
    /\ referenceGenomeData # NoGenome
    /\ referenceGenomeData.chromosomeSizes = Files(DefaultPath).sizes

\* C26: every synteny row in the filter result has both its reference
\* chromosome (ref_species, ref_chr) and its query chromosome (query_name,
\* query_chr) among the chromosome rows of the same filter result, for
\* every species selection and chromosome selection.
C26_ResultRowsHaveChromosomes ==
    DefaultHeld =>
        \A i \in 1..Len(filteredData.syntenyData) :
            chromosomesFound(filteredData.syntenyData[i],
                             filteredData.referenceData)

-----------------------------------------------------------------------------
(* Claims about failed loads, checked under SpecLoad                       *)

\* C27: Retry after a failed load starts the load of the dataset path whose
\* load failed.
C27_RetrySamePath ==
    [][(~ControlsShown /\ Len(inflight') > Len(inflight)) =>
           /\ failedPath # NoItem
           /\ inflight'[Len(inflight')] = failedPath[1]]_vars

-----------------------------------------------------------------------------
(* Claim about the keys of the selection, checked under SpecSelection      *)

\* C29: after any sequence of handleSyntenyToggle and handleSyntenySelection
\* calls from the empty selection, no two entries of selectedSynteny have
\* the same key (ref_chr, query_chr, ref_start); handleSyntenySelection(b,
\* true) for a key that is selected and handleSyntenySelection(b, false)
\* for a key that is not leave the selection as it is.
C29_SelectionKeysUnique ==
    /\ \A i \in 1..Len(selectedSynteny) :
           KeyCount(selectedSynteny, selectedSynteny[i]) = 1
    /\ \A b \in Links :
           IF KeyCount(selectedSynteny, b) > 0
           THEN handleSyntenySelection(selectedSynteny, b, TRUE) = selectedSynteny
           ELSE handleSyntenySelection(selectedSynteny, b, FALSE) = selectedSynteny

\* C29 witness: several blocks are selected, one of them with a key that
\* another row, which is not selected, carries too, and one block is not
\* selected at all.
C29_Witness ==
    /\ Len(selectedSynteny) >= 2
    /\ \E b \in Links :
           KeyCount(selectedSynteny, b) = 1 /\ b \notin Range(selectedSynteny)
    /\ \E b \in Links : KeyCount(selectedSynteny, b) = 0

-----------------------------------------------------------------------------
(* Claim about the zoom badge of the detailed view, checked under SpecZoom *)

\* the scale of the transform attribute of the drawn group: a translate as
\* the render effect writes it scales by 1
groupScale == IF detGroup = detGroupDrawn THEN Unit ELSE detGroup.k

\* C30: in the detailed view, after any sequence of zoom-in button, zoom-out
\* button, reset, wheel zoom and re-renders (config change, lock toggle,
\* resize, new selected block), the zoom percentage shown equals the scale
\* of the transform applied to the drawn group.
C30_BadgeShowsGroupScale ==
    detMounted => badge(detZoom) = badge(groupScale)

====
